---- MODULE Spec2Model ----
(***************************************************************************)
(* A model of an-ci (src/an-ci.py): the workflow loop of main, the task    *)
(* dispatch of execute_task, the local executor call_command and the       *)
(* docker session executor DockerTask.execute with its input queue, its    *)
(* output iterator and its KeyboardInterrupt handler.                      *)
(*                                                                         *)
(* The docker-compose child, the feeder thread of the sh library and the   *)
(* bash interpreter inside the container are the environment: their steps  *)
(* are the actions FeedLine, FeedCtrlC, BashSetE, BashCommand, BashExit.   *)
(***************************************************************************)
EXTENDS Integers, Sequences, FiniteSets, TLC

(* ------------------------------ bounds -------------------------------- *)

\* longest workflow of data['workflows'] that is explored
MaxWorkflowLen == 2

\* exit codes of the children range over 0..MaxExitCode
MaxExitCode == 2

\* KeyboardInterrupts delivered to the engine in one run
MaxInterrupts == 2

\* calls of call_command applied in a row under SpecCalls
MaxCalls == 3

(* --------------------------- program constants ------------------------ *)

\* main's return value when no .ci.yaml is found or no workflow is given
ConfigErrorCode == -1

\* main's return value when a task exits with a nonzero code
TaskFailedCode == 1

ExitCodes == 0..MaxExitCode

(* ------------------------- the definition file ------------------------ *)

\* data['tasks']: a command list, a !docker task that provisions the host
\* user, and a !docker task with default_user: true
TaskIds == {"build", "shell", "rootshell"}

\* identifiers a workflow may name; "ghost" is not in data['tasks']
WorkflowEntries == TaskIds \cup {"ghost"}

\* isinstance(task, DockerTask)
IsDockerTask(t) == t \in {"shell", "rootshell"}

\* DockerTask._default_user
DefaultUser(t) == t = "rootshell"

\* len(task) of a command list, len(self._commands) of a DockerTask
NumCommands(t) ==
  CASE t = "build" -> 2
    [] t = "shell" -> 3
    [] OTHER -> 1

\* data['workflows'] holds the one workflow "ci"
WorkflowIds == {"ci"}

Workflows == UNION { [1..n -> WorkflowEntries] : n \in 0..MaxWorkflowLen }

(* ------------------------------- lines -------------------------------- *)

\* the items put on in_queue; i is the index of the command in _commands
SetELine == [k |-> "set_e", i |-> 0]
CommandLine(i) == [k |-> "cmd", i |-> i]
ExitLine == [k |-> "exit", i |-> 0]
CtrlC == [k |-> "ctrl_c", i |-> 0]

VARIABLES
  ciFile,       \* get_work_path() found a .ci.yaml
  argc,         \* len(argv)
  workflow_id,  \* argv[1]
  workflow,     \* data['workflows']['ci']
  pc,           \* position of the controlling thread
  idx,          \* position of the for loop of main in the workflow
  ci,           \* position of the for loop of execute_task in the task
  exit_code,    \* exit_code of main: the last result of execute_task
  result,       \* the value main returned, "none" until it returns
  exc,          \* the exception that left main, "none" when there is none
  started,      \* history: workflow positions handed to execute_task
  codes,        \* history: the results of execute_task, in order
  executed,     \* task.execute() was called for the current task
  prov,         \* _prepare_user: "none" (not run), "ok", "failed"
  prov_code,    \* exit code of the provisioning bash
  in_queue,     \* every item put on in_queue, in put order
  nfed,         \* how many items of in_queue reached the session's tty
  session,      \* the interactive bash: "none", "running", "exited"
  errexit,      \* the session's set -e flag
  nread,        \* how many lines bash has read
  ran,          \* history: <<command index, exit code>> bash ran
  last_status,  \* $? of the session
  sess_exit,    \* exit status of the session once it has exited
  out,          \* output produced by the session and not yet iterated
  stdout,       \* history: session lines written to sys.stdout
  interrupts,   \* KeyboardInterrupts raised so far
  opened,       \* history: sessions started in the run
  os_environ,   \* os.environ of the engine
  launch_env,   \* history: os.environ when the engine was started
  spawned,      \* history: the children call_command started
  l,            \* the loop variable of "for l in command_it", 0 when unset
  caught        \* KeyboardInterrupts caught by the handler in this execute

vars == <<ciFile, argc, workflow_id, workflow, pc, idx, ci, exit_code, result,
          exc, started, codes, executed, prov, prov_code, in_queue, nfed,
          session, errexit, nread, ran, last_status, sess_exit, out, stdout,
          interrupts, opened, os_environ, launch_env, spawned, l, caught>>

inputVars == <<ciFile, argc, workflow_id, workflow>>

mainVars == <<idx, ci, exit_code, result, exc, started, codes>>

sessVars == <<session, errexit, nread, ran, last_status, sess_exit, out>>

execVars == <<executed, prov, prov_code, in_queue, nfed, stdout, opened>>

envVars == <<os_environ, launch_env, spawned>>

loopVars == <<l, caught>>

\* work_path, the directory of .ci.yaml, handed to every call_command
WorkPath == "/w"

\* cwd=None, the default of call_command
NoneCwd == "None"

\* directories the engine can be started in: get_work_path searches upward
StartDirs == {WorkPath, "/w/sub"}

\* the process environment of an engine started in directory d
Environ(d) == [PWD |-> d, HOME |-> "/home/ci"]

Init ==
  /\ ciFile \in BOOLEAN
  /\ argc \in {1, 2}
  /\ workflow_id \in {"ci", "nope"}
  /\ workflow \in Workflows
  /\ pc = "main"
  /\ idx = 0
  /\ ci = 0
  /\ exit_code = 0
  /\ result = "none"
  /\ exc = "none"
  /\ started = <<>>
  /\ codes = <<>>
  /\ executed = FALSE
  /\ prov = "none"
  /\ prov_code = 0
  /\ in_queue = <<>>
  /\ nfed = 0
  /\ session = "none"
  /\ errexit = FALSE
  /\ nread = 0
  /\ ran = <<>>
  /\ last_status = 0
  /\ sess_exit = 0
  /\ out = <<>>
  /\ stdout = <<>>
  /\ interrupts = 0
  /\ opened = 0
  /\ launch_env \in {Environ(d) : d \in StartDirs}
  /\ os_environ = launch_env
  /\ spawned = <<>>
  /\ l = 0
  /\ caught = 0

\* the task the for loop of main is at
CurrentTask == workflow[idx]

\* the locals of a fresh call of DockerTask.execute
FreshExecute ==
  /\ executed' = TRUE
  /\ prov' = "none"
  /\ prov_code' = 0
  /\ in_queue' = <<>>
  /\ nfed' = 0
  /\ session' = "none"
  /\ errexit' = FALSE
  /\ nread' = 0
  /\ ran' = <<>>
  /\ last_status' = 0
  /\ sess_exit' = 0
  /\ out' = <<>>
  /\ stdout' = <<>>
  /\ l' = 0
  /\ caught' = 0

(* -------------------------------- main -------------------------------- *)

\* a slip: a missing .ci.yaml reported with the code of a task failure
MainNoFile_ReturnsOne ==
  /\ pc = "main"
  /\ ~ciFile
  /\ result' = TaskFailedCode
  /\ pc' = "done"
  /\ UNCHANGED <<inputVars, envVars, loopVars,
                 idx, ci, exit_code, exc, started, codes,
                 execVars, sessVars, interrupts>>

\* work_path = get_work_path(); a missing .ci.yaml returns -1
MainNoFile ==
  /\ pc = "main"
  /\ ~ciFile
  /\ result' = ConfigErrorCode
  /\ pc' = "done"
  /\ UNCHANGED <<inputVars, envVars, loopVars,
                 idx, ci, exit_code, exc, started, codes,
                 execVars, sessVars, interrupts>>

\* the file is found and loaded
MainLoad ==
  /\ pc = "main"
  /\ ciFile
  /\ pc' = "loaded"
  /\ UNCHANGED <<inputVars, envVars, loopVars,
                 mainVars, execVars, sessVars, interrupts>>

\* a slip: the usage text ends with the code of success
MainUsage_ReturnsZero ==
  /\ pc = "loaded"
  /\ argc <= 1
  /\ result' = 0
  /\ pc' = "done"
  /\ UNCHANGED <<inputVars, envVars, loopVars,
                 idx, ci, exit_code, exc, started, codes,
                 execVars, sessVars, interrupts>>

\* len(argv) <= 1: the usage text, return -1
MainUsage ==
  /\ pc = "loaded"
  /\ argc <= 1
  /\ result' = ConfigErrorCode
  /\ pc' = "done"
  /\ UNCHANGED <<inputVars, envVars, loopVars,
                 idx, ci, exit_code, exc, started, codes,
                 execVars, sessVars, interrupts>>

\* data['workflows'][workflow_id]: a KeyError for an unknown workflow
MainWorkflow ==
  /\ pc = "loaded"
  /\ argc > 1
  /\ IF workflow_id \in WorkflowIds
       THEN /\ idx' = 1
            /\ pc' = "loop"
            /\ exc' = exc
       ELSE /\ idx' = idx
            /\ pc' = "raised"
            /\ exc' = "KeyError"
  /\ UNCHANGED <<inputVars, envVars, loopVars,
                 ci, exit_code, result, started, codes,
                 execVars, sessVars, interrupts>>

\* the for loop is exhausted: return 0
MainReturnZero ==
  /\ pc = "loop"
  /\ idx > Len(workflow)
  /\ result' = 0
  /\ pc' = "done"
  /\ UNCHANGED <<inputVars, envVars, loopVars,
                 idx, ci, exit_code, exc, started, codes,
                 execVars, sessVars, interrupts>>

\* task = data['tasks'][task_id]: a KeyError for an unknown task; otherwise
\* execute_task(task, cwd=work_path) is entered
MainTask ==
  /\ pc = "loop"
  /\ idx <= Len(workflow)
  /\ IF CurrentTask \in TaskIds
       THEN /\ started' = Append(started, idx)
            /\ executed' = FALSE
            /\ ci' = 1
            /\ pc' = IF IsDockerTask(CurrentTask) THEN "compose_up" ELSE "commands"
            /\ exc' = exc
       ELSE /\ started' = started
            /\ executed' = executed
            /\ ci' = ci
            /\ pc' = "raised"
            /\ exc' = "KeyError"
  /\ UNCHANGED <<inputVars, envVars, loopVars,
                 idx, exit_code, result, codes, prov, prov_code,
                 in_queue, nfed, stdout, opened, sessVars, interrupts>>

\* a slip: the exit code of the task is not looked at
MainTaskDone_NoFailFast ==
  /\ pc = "task_done"
  /\ result' = result
  /\ pc' = "loop"
  /\ idx' = idx + 1
  /\ UNCHANGED <<inputVars, envVars, loopVars,
                 ci, exit_code, exc, started, codes,
                 execVars, sessVars, interrupts>>

\* if exit_code != 0: return 1; otherwise the next task
MainTaskDone ==
  /\ pc = "task_done"
  /\ IF exit_code # 0
       THEN /\ result' = TaskFailedCode
            /\ pc' = "done"
            /\ idx' = idx
       ELSE /\ result' = result
            /\ pc' = "loop"
            /\ idx' = idx + 1
  /\ UNCHANGED <<inputVars, envVars, loopVars,
                 ci, exit_code, exc, started, codes,
                 execVars, sessVars, interrupts>>

(* ---------------------------- execute_task ---------------------------- *)

\* execute_task returns r to main
TaskReturns(r) ==
  /\ exit_code' = r
  /\ codes' = Append(codes, r)
  /\ pc' = "task_done"

\* env = dict(os.environ); if cwd is not None: env['PWD'] = cwd
ChildEnv(cwd) ==
  IF cwd # NoneCwd THEN [os_environ EXCEPT !["PWD"] = cwd] ELSE os_environ

\* a slip: env = os.environ, so the overlay is written to os.environ
call_command_Aliased(t, n, cwd, c) ==
  /\ spawned' = Append(spawned, [task |-> t, cmd |-> n, cwd |-> cwd,
                                  env |-> ChildEnv(cwd), code |-> c])
  /\ os_environ' = ChildEnv(cwd)
  /\ launch_env' = launch_env

\* call_command(command, cwd): command number n of the task at workflow
\* position t (0 for docker-compose up) is started with _cwd=cwd and
\* _env=env and exits with c; os.environ is left alone
call_command(t, n, cwd, c) ==
  /\ spawned' = Append(spawned, [task |-> t, cmd |-> n, cwd |-> cwd,
                                  env |-> ChildEnv(cwd), code |-> c])
  /\ os_environ' = os_environ
  /\ launch_env' = launch_env

\* a slip: the exit code of a command is not looked at
CallCommand_IgnoresCode(c) ==
  /\ pc = "commands"
  /\ ci <= NumCommands(CurrentTask)
  /\ call_command(idx, ci, WorkPath, c)
  /\ ci' = ci + 1
  /\ UNCHANGED <<exit_code, codes, pc>>
  /\ UNCHANGED <<inputVars, loopVars, idx, result, exc, started, execVars,
                 sessVars, interrupts>>

\* a command-list task: call_command(command, cwd) exits with c; a nonzero
\* c is returned at once
CallCommand(c) ==
  /\ pc = "commands"
  /\ ci <= NumCommands(CurrentTask)
  /\ call_command(idx, ci, WorkPath, c)
  /\ IF c # 0
       THEN /\ TaskReturns(c)
            /\ ci' = ci
       ELSE /\ ci' = ci + 1
            /\ UNCHANGED <<exit_code, codes, pc>>
  /\ UNCHANGED <<inputVars, loopVars, idx, result, exc, started, execVars,
                 sessVars, interrupts>>

\* the command list is exhausted: return 0
CommandsDone ==
  /\ pc = "commands"
  /\ ci > NumCommands(CurrentTask)
  /\ TaskReturns(0)
  /\ UNCHANGED <<inputVars, envVars, loopVars,
                 idx, ci, result, exc, started, execVars,
                 sessVars, interrupts>>

\* a slip: the exit code of docker-compose up is not looked at
ComposeUp_IgnoresCode(c) ==
  /\ pc = "compose_up"
  /\ call_command(idx, 0, WorkPath, c)
  /\ pc' = "prepare_user"
  /\ FreshExecute
  /\ UNCHANGED <<exit_code, codes, opened>>
  /\ UNCHANGED <<inputVars, idx, ci, result, exc, started, interrupts>>

\* a DockerTask: call_command(['docker-compose', 'up', '-d']) exits with c;
\* a nonzero c is returned, otherwise task.execute() is entered
ComposeUp(c) ==
  /\ pc = "compose_up"
  /\ call_command(idx, 0, WorkPath, c)
  /\ IF c # 0
       THEN /\ TaskReturns(c)
            /\ UNCHANGED <<execVars, sessVars, loopVars>>
       ELSE /\ pc' = "prepare_user"
            /\ FreshExecute
            /\ UNCHANGED <<exit_code, codes, opened>>
  /\ UNCHANGED <<inputVars, idx, ci, result, exc, started, interrupts>>

(* ------------------------- DockerTask.execute -------------------------- *)

\* execute returns r (return 0, or return e.exit_code of the handler of
\* sh.ErrorReturnCode), and execute_task returns it to main
ExecuteReturns(r) == TaskReturns(r)

\* _prepare_user with default_user set: return None, nothing is run
PrepareUserDefault ==
  /\ pc = "prepare_user"
  /\ DefaultUser(CurrentTask)
  /\ pc' = "make_bash"
  /\ UNCHANGED <<inputVars, envVars, loopVars,
                 mainVars, execVars, sessVars, interrupts>>

\* a slip: the exit code of the provisioning bash is not looked at
PrepareUser_IgnoresFailure(c) ==
  /\ pc = "prepare_user"
  /\ ~DefaultUser(CurrentTask)
  /\ prov_code' = c
  /\ prov' = IF c # 0 THEN "failed" ELSE "ok"
  /\ pc' = "make_bash"
  /\ UNCHANGED <<inputVars, envVars, loopVars,
                 mainVars, executed, in_queue, nfed, stdout,
                 opened, sessVars, interrupts>>

\* _prepare_user: the create-user script is run by a one-shot bash that
\* exits with c; sh raises ErrorReturnCode for a nonzero c, which the
\* handler at the end of execute turns into execute's result
PrepareUser(c) ==
  /\ pc = "prepare_user"
  /\ ~DefaultUser(CurrentTask)
  /\ prov_code' = c
  /\ IF c # 0
       THEN /\ prov' = "failed"
            /\ ExecuteReturns(c)
       ELSE /\ prov' = "ok"
            /\ pc' = "make_bash"
            /\ UNCHANGED <<exit_code, codes>>
  /\ UNCHANGED <<inputVars, envVars, loopVars,
                 idx, ci, result, exc, started, executed,
                 in_queue, nfed, stdout, opened, sessVars, interrupts>>

\* the lines _make_bash puts on a new queue for n commands
CommandLines(n) == [i \in 1..n |-> CommandLine(i)]

\* a slip: the queue is left without its last line
BashScript_NoExit(n) == <<SetELine>> \o CommandLines(n)

\* a slip: the queue starts with the first command
BashScript_NoSetE(n) == CommandLines(n) \o <<ExitLine>>

BashScript(n) == <<SetELine>> \o CommandLines(n) \o <<ExitLine>>

\* in_queue = self._make_bash()
MakeBash ==
  /\ pc = "make_bash"
  /\ in_queue' = BashScript(NumCommands(CurrentTask))
  /\ pc' = "start_bash"
  /\ UNCHANGED <<inputVars, envVars, loopVars,
                 mainVars, executed, prov, prov_code, nfed,
                 stdout, opened, sessVars, interrupts>>

\* command = self._execute('bash', _iter=True, _in=in_queue, ...);
\* command_it = iter(command)
StartBash ==
  /\ pc = "start_bash"
  /\ session' = "running"
  /\ opened' = opened + 1
  /\ pc' = "drain"
  /\ UNCHANGED <<inputVars, envVars, loopVars,
                 mainVars, executed, prov, prov_code, in_queue,
                 nfed, stdout, errexit, nread, ran, last_status, sess_exit,
                 out, interrupts>>

\* "for l in command_it": the iterator hands the next line to l
DrainLine ==
  /\ pc = "drain"
  /\ out # <<>>
  /\ l' = Head(out)
  /\ out' = Tail(out)
  /\ pc' = "write"
  /\ UNCHANGED <<inputVars, envVars, mainVars, caught, execVars, session,
                 errexit, nread, ran, last_status, sess_exit, interrupts>>

\* the body of the for loop: l is written to sys.stdout and flushed
DrainWrite ==
  /\ pc = "write"
  /\ stdout' = Append(stdout, l)
  /\ pc' = "drain"
  /\ UNCHANGED <<inputVars, envVars, loopVars, mainVars, executed, prov,
                 prov_code, in_queue, nfed, opened, sessVars, interrupts>>

\* the iterator is exhausted: the session has exited and its output is
\* read. Exit status 0 ends the for loop and execute returns 0; otherwise
\* sh raises ErrorReturnCode and execute returns e.exit_code
DrainEnd ==
  /\ pc = "drain"
  /\ out = <<>>
  /\ session = "exited"
  /\ IF sess_exit = 0 THEN ExecuteReturns(0) ELSE ExecuteReturns(sess_exit)
  /\ UNCHANGED <<inputVars, envVars, loopVars,
                 idx, ci, result, exc, started, execVars,
                 sessVars, interrupts>>

\* a KeyboardInterrupt is raised inside the try block of the while loop,
\* while the iterator is waited on or in the body before l is written, and
\* is caught by "except KeyboardInterrupt"; the body is not resumed
InterruptDrain ==
  /\ pc \in {"drain", "write"}
  /\ interrupts < MaxInterrupts
  /\ interrupts' = interrupts + 1
  /\ caught' = caught + 1
  /\ l' = l
  /\ pc' = "interrupted"
  /\ UNCHANGED <<inputVars, envVars, mainVars, execVars, sessVars>>

\* a slip: the interrupt byte is put in front of the waiting lines
HandlerPut_AtHead ==
  /\ pc = "interrupted"
  /\ in_queue' = <<CtrlC>> \o in_queue
  /\ pc' = "drain"
  /\ UNCHANGED <<inputVars, envVars, loopVars, mainVars, executed, prov,
                 prov_code, nfed, stdout, opened, sessVars, interrupts>>

\* a slip: the handler gives up instead of forwarding the interrupt
HandlerPut_Returns ==
  /\ pc = "interrupted"
  /\ ExecuteReturns(TaskFailedCode)
  /\ UNCHANGED <<inputVars, envVars, loopVars,
                 idx, ci, result, exc, started, execVars,
                 sessVars, interrupts>>

\* in_queue.put("\x03"), then the while loop iterates command_it again
HandlerPut ==
  /\ pc = "interrupted"
  /\ in_queue' = Append(in_queue, CtrlC)
  /\ pc' = "drain"
  /\ UNCHANGED <<inputVars, envVars, loopVars,
                 mainVars, executed, prov, prov_code, nfed,
                 stdout, opened, sessVars, interrupts>>

\* positions of the controlling thread where no handler of
\* KeyboardInterrupt is in force
UnprotectedPcs ==
  {"commands", "compose_up", "prepare_user", "make_bash", "start_bash",
   "interrupted"}

\* a slip: a handler around the whole of execute turns the interrupt
\* into an exit code
InterruptPropagates_Returns ==
  /\ pc \in UnprotectedPcs
  /\ interrupts < MaxInterrupts
  /\ interrupts' = interrupts + 1
  /\ TaskReturns(TaskFailedCode)
  /\ UNCHANGED <<inputVars, envVars, loopVars, idx, ci, result, exc,
                 started, execVars, sessVars>>

\* a KeyboardInterrupt raised there leaves execute, execute_task and main
InterruptPropagates ==
  /\ pc \in UnprotectedPcs
  /\ interrupts < MaxInterrupts
  /\ interrupts' = interrupts + 1
  /\ exc' = "KeyboardInterrupt"
  /\ pc' = "raised"
  /\ UNCHANGED <<inputVars, envVars, loopVars,
                 idx, ci, exit_code, result, started, codes,
                 execVars, sessVars>>

(* ------------- the environment: sh's feeder and the session ------------ *)

\* the session runs beside the controlling thread while execute iterates
SessionLive ==
  session = "running" /\ pc \in {"drain", "write", "interrupted"}

\* the items of in_queue written to the session's tty so far
Fed == SubSeq(in_queue, 1, nfed)

IsLine(x) == x # CtrlC

\* the lines bash can read: the fed items without the control bytes
FedLines == SelectSeq(Fed, IsLine)

\* the session ends with status c
SessionExits(c) ==
  /\ session' = "exited"
  /\ sess_exit' = c

\* sh's input thread takes the next item of the queue and writes it to the
\* tty: a line
FeedLine ==
  /\ SessionLive
  /\ nfed < Len(in_queue)
  /\ in_queue[nfed + 1] # CtrlC
  /\ nfed' = nfed + 1
  /\ UNCHANGED <<inputVars, envVars, loopVars,
                 mainVars, pc, executed, prov, prov_code,
                 in_queue, stdout, opened, sessVars, interrupts>>

\* ... the control byte: the tty signals the session, which carries on
FeedCtrlCIgnored ==
  /\ SessionLive
  /\ nfed < Len(in_queue)
  /\ in_queue[nfed + 1] = CtrlC
  /\ nfed' = nfed + 1
  /\ UNCHANGED <<inputVars, envVars, loopVars,
                 mainVars, pc, executed, prov, prov_code,
                 in_queue, stdout, opened, sessVars, interrupts>>

\* ... the control byte: the signal ends the session with a nonzero c
FeedCtrlCKills(c) ==
  /\ SessionLive
  /\ nfed < Len(in_queue)
  /\ in_queue[nfed + 1] = CtrlC
  /\ c # 0
  /\ nfed' = nfed + 1
  /\ SessionExits(c)
  /\ UNCHANGED <<inputVars, envVars, loopVars,
                 mainVars, pc, executed, prov, prov_code,
                 in_queue, stdout, opened, errexit, nread, ran, last_status,
                 out, interrupts>>

BashHasLine == SessionLive /\ nread < Len(FedLines)

BashLine == FedLines[nread + 1]

\* bash reads 'set' '-e'
BashSetE ==
  /\ BashHasLine
  /\ BashLine.k = "set_e"
  /\ errexit' = TRUE
  /\ nread' = nread + 1
  /\ last_status' = 0
  /\ UNCHANGED <<inputVars, envVars, loopVars,
                 mainVars, pc, execVars, session, ran, sess_exit,
                 out, interrupts>>

\* bash reads a command line and runs it: the command writes its output
\* and exits with c; under set -e a nonzero c ends the session with c
BashCommand(c) ==
  /\ BashHasLine
  /\ BashLine.k = "cmd"
  /\ nread' = nread + 1
  /\ ran' = Append(ran, <<BashLine.i, c>>)
  /\ out' = Append(out, BashLine.i)
  /\ last_status' = c
  /\ IF c # 0 /\ errexit
       THEN SessionExits(c)
       ELSE UNCHANGED <<session, sess_exit>>
  /\ UNCHANGED <<inputVars, envVars, loopVars,
                 mainVars, pc, execVars, errexit, interrupts>>

\* bash reads 'exit': the session ends with the status of the last command
BashExit ==
  /\ BashHasLine
  /\ BashLine.k = "exit"
  /\ nread' = nread + 1
  /\ SessionExits(last_status)
  /\ UNCHANGED <<inputVars, envVars, loopVars,
                 mainVars, pc, execVars, errexit, ran,
                 last_status, out, interrupts>>

(* ------------------- command trees and their lines -------------------- *)

\* a command of the definition file: a string (a sequence of characters)
\* or a list of commands. op marks the strings the tag constructors put
\* in; the engine has no such mark, a string is a string
Str(w) == [list |-> FALSE, w |-> w, kids |-> <<>>, op |-> FALSE]

OpStr(w) == [list |-> FALSE, w |-> w, kids |-> <<>>, op |-> TRUE]

List(kids) == [list |-> TRUE, w |-> <<>>, kids |-> kids, op |-> FALSE]

\* !isolate: ['(', command, ')']
isolate_command_constructor(command) ==
  List(<<OpStr(<<"(">>), command, OpStr(<<")">>)>>)

\* !and: ['&&', command]
and_command_constructor(command) == List(<<OpStr(<<"&", "&">>), command>>)

\* !pipe: ['|', command]
pipe_command_constructor(command) == List(<<OpStr(<<"|">>), command>>)

\* the commands of the tasks of the definition file:
\*   shell:     [echo, "it's"]
\*              [make, !and [make, test]]
\*              [!isolate [ls, "a b"], !pipe [wc]]
\*   rootshell: [true]
\*   build:     [make], [make, test]
Commands(t) ==
  CASE t = "shell" ->
         << List(<<Str(<<"e", "c", "h", "o">>), Str(<<"i", "t", "'", "s">>)>>),
            List(<<Str(<<"m", "a", "k", "e">>),
                   and_command_constructor(
                     List(<<Str(<<"m", "a", "k", "e">>),
                            Str(<<"t", "e", "s", "t">>)>>))>>),
            List(<<isolate_command_constructor(
                     List(<<Str(<<"l", "s">>), Str(<<"a", " ", "b">>)>>)),
                   pipe_command_constructor(List(<<Str(<<"w", "c">>)>>))>>) >>
    [] t = "rootshell" -> << List(<<Str(<<"t", "r", "u", "e">>)>>) >>
    [] OTHER ->
         << List(<<Str(<<"m", "a", "k", "e">>)>>),
            List(<<Str(<<"m", "a", "k", "e">>), Str(<<"t", "e", "s", "t">>)>>) >>

RECURSIVE Flatten(_)
\* the concatenation of a sequence of sequences
Flatten(ss) == IF ss = <<>> THEN <<>> ELSE Head(ss) \o Flatten(Tail(ss))

RECURSIVE _unroll(_)
\* _unroll(arg): the strings of a nested list, depth first, in order
_unroll(arg) ==
  IF arg.list
    THEN Flatten([i \in 1..Len(arg.kids) |-> _unroll(arg.kids[i])])
    ELSE <<arg>>

\* the characters shellescape.quote leaves alone: [a-zA-Z0-9_@%+=:,./-]
SafeChars ==
  {"a", "b", "c", "d", "e", "f", "g", "h", "i", "j", "k", "l", "m", "n", "o",
   "p", "q", "r", "s", "t", "u", "v", "w", "x", "y", "z", "_", "@", "%", "+",
   "=", ":", ",", ".", "/", "-"}

\* shellescape.quote(s): '' for the empty string, s itself when every
\* character is safe, otherwise s in single quotes with each ' as '"'"'
quote(w) ==
  IF w = <<>> THEN <<"'", "'">>
  ELSE IF \A i \in 1..Len(w) : w[i] \in SafeChars THEN w
  ELSE <<"'">>
       \o Flatten([i \in 1..Len(w) |->
                     IF w[i] = "'" THEN <<"'", "\"", "'", "\"", "'">>
                     ELSE <<w[i]>>])
       \o <<"'">>

\* ' '.join(words)
Join(words) ==
  Flatten([i \in 1..Len(words) |->
             IF i = 1 THEN words[i] ELSE <<" ">> \o words[i]])

\* x = ' '.join(shellescape.quote(str(x)) for x in _unroll(command))
CommandText(command) ==
  LET strings == _unroll(command)
  IN Join([i \in 1..Len(strings) |-> quote(strings[i].w)])

RECURSIVE Lex(_, _, _, _, _, _)
\* bash splitting a line into words: mode is "" outside quotes, "'" or "\""
\* inside; cur is the word being read, quoted whether a quote was part of
\* it, and acc the words read so far
Lex(line, mode, cur, quoted, inword, acc) ==
  LET word == [text |-> cur, quoted |-> quoted]
  IN IF line = <<>>
       THEN IF inword THEN Append(acc, word) ELSE acc
     ELSE LET c == Head(line)
              rest == Tail(line)
          IN IF mode = ""
               THEN IF c = " "
                      THEN IF inword
                             THEN Lex(rest, "", <<>>, FALSE, FALSE,
                                      Append(acc, word))
                             ELSE Lex(rest, "", <<>>, FALSE, FALSE, acc)
                    ELSE IF c \in {"'", "\""}
                      THEN Lex(rest, c, cur, TRUE, TRUE, acc)
                    ELSE Lex(rest, "", Append(cur, c), quoted, TRUE, acc)
             ELSE IF c = mode
               THEN Lex(rest, "", cur, quoted, inword, acc)
             ELSE Lex(rest, mode, Append(cur, c), quoted, inword, acc)

\* the words bash reads on a line
ShellWords(line) == Lex(line, "", <<>>, FALSE, FALSE, <<>>)

\* the words bash takes as control operators: only unquoted ones
ShellOperators == {<<"&", "&">>, <<"|">>, <<"(">>, <<")">>}

IsShellOperator(word) == ~word.quoted /\ word.text \in ShellOperators

(* ---------------------------- specification ---------------------------- *)

Next ==
  \/ MainNoFile
  \/ MainLoad
  \/ MainUsage
  \/ MainWorkflow
  \/ MainReturnZero
  \/ MainTask
  \/ MainTaskDone
  \/ \E c \in ExitCodes : CallCommand(c)
  \/ CommandsDone
  \/ \E c \in ExitCodes : ComposeUp(c)
  \/ PrepareUserDefault
  \/ \E c \in ExitCodes : PrepareUser(c)
  \/ MakeBash
  \/ StartBash
  \/ DrainLine
  \/ DrainWrite
  \/ DrainEnd
  \/ InterruptDrain
  \/ HandlerPut
  \/ InterruptPropagates
  \/ FeedLine
  \/ FeedCtrlCIgnored
  \/ \E c \in ExitCodes : FeedCtrlCKills(c)
  \/ BashSetE
  \/ \E c \in ExitCodes : BashCommand(c)
  \/ BashExit

Spec == Init /\ [][Next]_vars

(* ------------------ call_command applied on its own -------------------- *)

\* the values of the cwd parameter: the default None and two directories
Cwds == {NoneCwd, WorkPath, "/x"}

\* the engine before any call, with a definition file that is not looked at
InitCalls ==
  /\ Init
  /\ ciFile
  /\ argc = 2
  /\ workflow_id = "ci"
  /\ workflow = <<>>

\* one more call_command(command, cwd), whose child exits with c
AnyCall(cwd, c) ==
  /\ Len(spawned) < MaxCalls
  /\ call_command(0, Len(spawned) + 1, cwd, c)
  /\ UNCHANGED <<inputVars, loopVars, mainVars, pc, execVars, sessVars,
                 interrupts>>

NextCalls == \E cwd \in Cwds, c \in ExitCodes : AnyCall(cwd, c)

SpecCalls == InitCalls /\ [][NextCalls]_vars

(* ------------------------------ properties ----------------------------- *)

\* execute has returned to execute_task and main for the current task
Returned == pc = "task_done" /\ executed

\* the controlling thread is inside DockerTask.execute
InExecute ==
  pc \in {"prepare_user", "make_bash", "start_bash", "drain", "write",
          "interrupted"}

\* the first position of a nonzero code in a sequence of exit codes
HasNonZero(s) == \E j \in 1..Len(s) : s[j] # 0

FirstNonZero(s) ==
  CHOOSE j \in 1..Len(s) : s[j] # 0 /\ \A i \in 1..(j - 1) : s[i] = 0

\* C1: fail-fast. The tasks handed to execute_task are the workflow
\* positions 1, 2, ... in order, each once; a task is started only after
\* the one before it has returned; and once a task has returned a nonzero
\* code no later task is started.
C1_FailFast ==
  /\ \A i \in 1..Len(started) : started[i] = i
  /\ Len(started) <= Len(workflow)
  /\ Len(codes) <= Len(started)
  /\ Len(started) <= Len(codes) + 1
  /\ \A j \in 1..Len(codes) : codes[j] # 0 => Len(started) = j
  /\ (pc = "done" /\ HasNonZero(codes)) => Len(started) = FirstNonZero(codes)

\* C1 witness: main has ended after the first task of a two-task workflow
\* failed, with a resolvable second task that was never started
C1_Witness ==
  /\ pc = "done"
  /\ Len(workflow) = 2
  /\ workflow[2] \in TaskIds
  /\ Len(codes) = 1
  /\ codes[1] # 0
  /\ started = <<1>>

\* C2: when a task exits with a nonzero code c, main's result is c, the
\* first nonzero task exit code.
C2_ResultIsFirstNonZeroCode ==
  (pc = "done" /\ HasNonZero(codes)) => result = codes[FirstNonZero(codes)]

\* C3: the result of DockerTask.execute is the exit status of the
\* interactive session: whenever execute has returned, the session has
\* exited, the result is its exit status, and the result is 0 exactly when
\* that status is 0.
C3_ResultIsSessionExit ==
  Returned =>
    /\ session = "exited"
    /\ exit_code = sess_exit
    /\ (exit_code = 0 <=> sess_exit = 0)

\* items of the input queue that are the interrupt byte
NumCtrlC(q) == Cardinality({p \in 1..Len(q) : q[p] = CtrlC})

\* C4: interrupt forwarding. A KeyboardInterrupt raised while the output is
\* iterated leaves execute running and the session, its output and the
\* queue as they are; the handler's step then puts the interrupt byte at
\* the end of the queue and goes back to the same iterator; and execute
\* returns from there only when the session has exited and its output is
\* read, with the session's exit status.
C4_InterruptForwarding ==
  [][ /\ (pc \in {"drain", "write"} /\ interrupts' # interrupts) =>
           /\ pc' = "interrupted"
           /\ UNCHANGED <<session, sess_exit, out, stdout, in_queue, codes,
                          exit_code, exc>>
      /\ (pc = "interrupted" /\ pc' # pc /\ interrupts' = interrupts) =>
           /\ pc' = "drain"
           /\ in_queue' = Append(in_queue, CtrlC)
           /\ UNCHANGED <<session, sess_exit, out, stdout, codes, exit_code>>
      /\ (pc \in {"drain", "write", "interrupted"} /\ pc' = "task_done") =>
           /\ session = "exited"
           /\ out = <<>>
           /\ exit_code' = sess_exit
           /\ NumCtrlC(in_queue) = NumCtrlC(in_queue')
    ]_vars

\* C4 witness: execute has returned the exit status 0 of a session that
\* ran to its end after an interrupt was forwarded to it
C4_Witness ==
  /\ Returned
  /\ NumCtrlC(in_queue) >= 1
  /\ nfed = Len(in_queue)
  /\ session = "exited"
  /\ Len(ran) = NumCommands(CurrentTask)
  /\ exit_code = sess_exit
  /\ sess_exit = 0

\* output lines of the commands bash ran, in the order it ran them
RanOutput == [j \in 1..Len(ran) |-> ran[j][1]]

\* C5: exit-on-error. The queue handed to the session starts with the
\* set -e line, so it precedes every command line; bash runs the commands
\* in order; a command that returns nonzero is the last one run and ends
\* the session with a nonzero status; the output emitted is that of the
\* commands run, in their order, and of no command after the failing one;
\* and when execute returns with no interrupt caught all of it has been
\* written and the result is nonzero.
C5_ExitOnError ==
  /\ session # "none" =>
       /\ in_queue[1] = SetELine
       /\ \A p \in 2..Len(in_queue) : in_queue[p] # SetELine
  /\ \A j \in 1..Len(ran) : ran[j][1] = j
  /\ \A j \in 1..Len(ran) :
       ran[j][2] # 0 =>
         /\ j = Len(ran)
         /\ session = "exited"
         /\ sess_exit # 0
         /\ Returned => exit_code # 0
  /\ LET emitted == stdout \o out
     IN /\ \A p \in 1..Len(emitted) : emitted[p] \in 1..Len(ran)
        /\ \A p, q \in 1..Len(emitted) : p < q => emitted[p] < emitted[q]
  /\ caught = 0 => stdout \o (IF pc = "write" THEN <<l>> ELSE <<>>) \o out
                     = RanOutput
  /\ (Returned /\ session = "exited" /\ caught = 0) => stdout = RanOutput

\* C5 witness: of three commands the second failed; execute has returned
\* nonzero with the output of the first two written and the third not run
C5_Witness ==
  /\ Returned
  /\ NumCommands(CurrentTask) = 3
  /\ Len(ran) = 2
  /\ ran[1][2] = 0
  /\ ran[2][2] # 0
  /\ stdout = <<1, 2>>
  /\ exit_code = ran[2][2]

\* C6: with default_user false, a failed provisioning ends the task before
\* the session: no queue is built, no interpreter is started, no line is
\* delivered or run. With default_user true, provisioning is never run.
C6_ProvisioningFailureAborts ==
  (InExecute \/ Returned) =>
    /\ prov = "failed" =>
         /\ ~DefaultUser(CurrentTask)
         /\ pc = "task_done"
         /\ session = "none"
         /\ in_queue = <<>>
         /\ nfed = 0
         /\ ran = <<>>
         /\ stdout = <<>>
    /\ DefaultUser(CurrentTask) => prov = "none"
    /\ (~DefaultUser(CurrentTask) /\ session # "none") => prov = "ok"

\* C6 witness: execute has returned after a failed provisioning
C6_Witness ==
  /\ Returned
  /\ prov = "failed"
  /\ prov_code # 0
  /\ opened = 0

\* C7: the exit code of the provisioning step is not part of the result:
\* when provisioning exits nonzero, the value execute returns is not that
\* exit code.
C7_ResultIsNotProvisioningCode ==
  (Returned /\ prov = "failed") => exit_code # prov_code

\* a run that ended with a configuration error: the sentinel result, or
\* the KeyError of an unresolved workflow or task identifier
ConfigErrorEnd ==
  \/ pc = "done" /\ result = ConfigErrorCode
  \/ pc = "raised" /\ exc = "KeyError"

\* C8: a configuration error is fatal before any task runs: in a run that
\* ended with one, no task, bring-up or session was started.
C8_ConfigErrorBeforeAnyTask ==
  ConfigErrorEnd => (started = <<>> /\ opened = 0)

\* a missing definition file or a missing workflow id
MissingFileOrWorkflowId == ~ciFile \/ argc <= 1

\* C9: for a missing definition file or workflow id main returns the
\* sentinel, which is outside 0..255; every other value main returns is
\* inside 0..255.
C9_SentinelOutsideExitRange ==
  pc = "done" =>
    /\ MissingFileOrWorkflowId =>
         (result = ConfigErrorCode /\ result \notin 0..255)
    /\ ~MissingFileOrWorkflowId =>
         (result \in 0..255 /\ result # ConfigErrorCode)

\* C9 witness: main has returned for a run with the file and no workflow id
C9_Witness ==
  /\ pc = "done"
  /\ ciFile
  /\ argc <= 1
  /\ result = ConfigErrorCode

\* every task of the workflow was executed, in order, with exit code 0
AllTasksSucceeded ==
  /\ started = [i \in 1..Len(workflow) |-> i]
  /\ codes = [i \in 1..Len(workflow) |-> 0]

\* C10: main returns 0 if and only if a definition file and a workflow id
\* were given and every task of the workflow was executed, in order, with
\* exit code 0.
C10_ZeroIffAllSucceeded ==
  pc = "done" =>
    (result = 0 <=> (~MissingFileOrWorkflowId /\ AllTasksSucceeded))

\* C10 witness: main has returned 0 after a command list and a session
C10_Witness ==
  /\ pc = "done"
  /\ result = 0
  /\ Len(workflow) = 2
  /\ codes = <<0, 0>>
  /\ opened = 1

\* the command behind a line of the input queue
QueuedCommand(p) == Commands(CurrentTask)[in_queue[p].i]

\* bash reads the line of a command as the strings of the command, word
\* for word
RoundTrips(command) ==
  LET strings == _unroll(command)
      words == ShellWords(CommandText(command))
  IN /\ Len(words) = Len(strings)
     /\ \A j \in 1..Len(strings) : words[j].text = strings[j].w

C12_EnvironmentNotMutated ==
  /\ os_environ = launch_env
  /\ \A i \in 1..Len(spawned) :
       /\ DOMAIN spawned[i].env = DOMAIN launch_env
       /\ spawned[i].env["PWD"] =
            IF spawned[i].cwd = NoneCwd THEN launch_env["PWD"]
            ELSE spawned[i].cwd
       /\ \A k \in DOMAIN launch_env \ {"PWD"} :
            spawned[i].env[k] = launch_env[k]

\* C12 witness: a call with cwd /x, then a call with no cwd whose child
\* sees the PWD the engine was started with
C12_Witness ==
  /\ Len(spawned) >= 2
  /\ spawned[1].cwd = "/x"
  /\ spawned[1].env["PWD"] = "/x"
  /\ spawned[2].cwd = NoneCwd
  /\ spawned[2].env["PWD"] = launch_env["PWD"]
  /\ launch_env["PWD"] # "/x"

\* the children call_command started for the task at workflow position t
IsCallOf(t, s) == s.task = t

TaskCalls(t) == SelectSeq(spawned, LAMBDA s : IsCallOf(t, s))

\* C13: for a command-list task the commands are called in list order with
\* the working directory; a command that exits nonzero is the last one
\* called and its code is the task's result; the result is 0 only when
\* every command of the list was called and exited 0.
C13_CommandListStopsAtFirstFailure ==
  \A t \in 1..Len(started) :
    ~IsDockerTask(workflow[t]) =>
      LET calls == TaskCalls(t)
          n == NumCommands(workflow[t])
      IN /\ Len(calls) <= n
         /\ \A j \in 1..Len(calls) :
              /\ calls[j].cmd = j
              /\ calls[j].cwd = WorkPath
              /\ calls[j].code # 0 =>
                   /\ j = Len(calls)
                   /\ t <= Len(codes)
                   /\ codes[t] = calls[j].code
         /\ t <= Len(codes) =>
              /\ codes[t] = 0 <=>
                   (Len(calls) = n /\ \A j \in 1..n : calls[j].code = 0)
              /\ codes[t] # 0 => codes[t] = calls[Len(calls)].code

\* C13 witness: the first of two commands failed, the task returned its
\* code and the second command was never called
C13_Witness ==
  /\ pc = "done"
  /\ Len(started) = 1
  /\ ~IsDockerTask(workflow[1])
  /\ NumCommands(workflow[1]) = 2
  /\ Len(TaskCalls(1)) = 1
  /\ TaskCalls(1)[1].code # 0
  /\ codes = <<TaskCalls(1)[1].code>>

\* at a DockerTask, in execute_task or back in main with its result
AtDockerTask ==
  /\ pc \in {"compose_up", "task_done"} \/ InExecute
  /\ IsDockerTask(CurrentTask)

\* C14: for a session task docker-compose up is the first thing started;
\* execute (provisioning, queue, session) is entered only from a bring-up
\* that exited 0; a bring-up that exits nonzero returns that code and
\* leaves provisioning and session unstarted.
C14_BringUpFirst ==
  /\ [](AtDockerTask =>
          /\ pc = "compose_up" => (TaskCalls(idx) = <<>> /\ ~executed)
          /\ InExecute => executed
          /\ executed =>
               /\ Len(TaskCalls(idx)) = 1
               /\ TaskCalls(idx)[1].cmd = 0
               /\ TaskCalls(idx)[1].code = 0
          /\ (pc = "task_done" /\ ~executed) =>
               /\ Len(TaskCalls(idx)) = 1
               /\ TaskCalls(idx)[1].cmd = 0
               /\ TaskCalls(idx)[1].code # 0
               /\ exit_code = TaskCalls(idx)[1].code)
  /\ [][ (pc = "compose_up" /\ pc' = "task_done") =>
           UNCHANGED <<prov, prov_code, session, opened, in_queue, nfed,
                       ran, stdout>> ]_vars

\* C14 witness: the bring-up of a session task exited nonzero and the task
\* returned that code with no session ever opened
C14_Witness ==
  /\ AtDockerTask
  /\ pc = "task_done"
  /\ ~executed
  /\ exit_code # 0
  /\ opened = 0
  /\ prov = "none"

\* C15: command feeding. Before the interpreter is started the queue holds
\* the set -e line, one line per command in command order, and the exit
\* line; from then on only interrupt bytes are added, behind the exit
\* line, one per interrupt caught at most; nothing is delivered before the
\* interpreter is started; and a put is never held up by the queue.
C15_CommandFeeding ==
  (InExecute \/ Returned) =>
    LET n == NumCommands(CurrentTask)
    IN /\ (pc = "start_bash" \/ session # "none") =>
            /\ Len(in_queue) >= n + 2
            /\ in_queue[1] = SetELine
            /\ \A i \in 1..n : in_queue[i + 1] = CommandLine(i)
            /\ in_queue[n + 2] = ExitLine
            /\ \A p \in (n + 3)..Len(in_queue) : in_queue[p] = CtrlC
            /\ Len(in_queue) - (n + 2) <= caught
       /\ pc = "start_bash" => (session = "none" /\ Len(in_queue) = n + 2)
       /\ session = "none" => nfed = 0
       /\ pc = "interrupted" => ENABLED HandlerPut

\* C15 witness: the queue of a three-command task is complete and the
\* interpreter is not started yet
C15_Witness ==
  /\ pc = "start_bash"
  /\ NumCommands(CurrentTask) = 3
  /\ in_queue = <<SetELine, CommandLine(1), CommandLine(2), CommandLine(3),
                  ExitLine>>
  /\ session = "none"

\* the session tasks handed to execute_task so far
DockerTasksStarted ==
  {t \in 1..Len(started) : IsDockerTask(workflow[t])}

\* C16: session lifecycle. No more sessions are opened than session tasks
\* were started, a session is started only when none is running, and once
\* execute has ended, in whatever way, no session is running.
C16_SessionLifecycle ==
  /\ opened <= Cardinality(DockerTasksStarted)
  /\ pc = "start_bash" => session # "running"
  /\ ~InExecute => session # "running"

\* the line the for loop holds and has not written yet
PendingLine == IF pc = "write" THEN <<l>> ELSE <<>>

\* C17: repeated cancellation. Whenever the output is being iterated or
\* execute has returned, as many interrupt bytes are on the queue as
\* interrupts were caught, and the lines written, the line in hand and the
\* lines waiting are together the lines the session produced, each once
\* and in production order.
C17_NoLineLost ==
  ((pc \in {"drain", "write"} \/ Returned) /\ session # "none") =>
    /\ NumCtrlC(in_queue) = caught
    /\ stdout \o PendingLine \o out = RanOutput

\* C18: interrupts are forwarded only while iterating. A KeyboardInterrupt
\* raised in execute outside the for block (provisioning, building the
\* queue, starting the interpreter, the handler's put) puts nothing on the
\* queue and yields no exit code: it leaves main as an exception, after
\* which nothing more is run.
C18_InterruptsOutsideDrainPropagate ==
  [][ /\ (/\ pc \in {"prepare_user", "make_bash", "start_bash", "interrupted"}
          /\ interrupts' # interrupts) =>
           /\ pc' = "raised"
           /\ exc' = "KeyboardInterrupt"
           /\ UNCHANGED <<in_queue, codes, exit_code, result, started,
                          spawned, opened>>
      /\ pc = "raised" => UNCHANGED vars
    ]_vars

\* C18 witness: a second interrupt hit the handler before its put; main
\* was left by the exception with a later task never started
C18_Witness ==
  /\ pc = "raised"
  /\ exc = "KeyboardInterrupt"
  /\ interrupts = 2
  /\ caught = 1
  /\ NumCtrlC(in_queue) = 0
  /\ result = "none"
  /\ Len(workflow) = 2
  /\ workflow[2] \in TaskIds
  /\ started = <<1>>
  /\ codes = <<>>

\* C19: the interrupt byte shares the FIFO queue with the lines. The lines
\* of the queue are the script in its order, every interrupt byte is
\* behind every line, the lines bash can read are a prefix of the script,
\* and an interrupt byte has reached the tty only after all the lines.
C19_InterruptByteAtTail ==
  ((InExecute \/ Returned) /\ session # "none") =>
    LET n == NumCommands(CurrentTask)
        script == [p \in 1..(n + 2) |->
                     IF p = 1 THEN SetELine
                     ELSE IF p = n + 2 THEN ExitLine
                     ELSE CommandLine(p - 1)]
    IN /\ SelectSeq(in_queue, IsLine) = script
       /\ \A p, q \in 1..Len(in_queue) :
            (in_queue[p] = CtrlC /\ IsLine(in_queue[q])) => q < p
       /\ FedLines = SubSeq(script, 1, Len(FedLines))
       /\ NumCtrlC(Fed) > 0 => FedLines = script

\* C19 witness: two interrupt bytes are queued behind the exit line and the
\* first has reached the tty, after all the lines
C19_Witness ==
  /\ InExecute
  /\ session # "none"
  /\ NumCtrlC(in_queue) = 2
  /\ NumCtrlC(Fed) = 1
  /\ Len(FedLines) = NumCommands(CurrentTask) + 2
  /\ in_queue[Len(in_queue)] = CtrlC

====
